---- MODULE Spec2Model ----
(***************************************************************************)
(* PCB defect detection service: the /detect request handler (main.py),    *)
(* the orchestrator save_detection_to_supabase (pcb_model/pcb_db.py) and   *)
(* its payload-returning variant save_detection_to_supabase_and_get_urls   *)
(* (pcb_model/app/pcb_db.py), over a storage bucket, two database tables   *)
(* and the local upload directory.                                         *)
(*                                                                         *)
(* Python values: None is the empty tuple <<>>, any other optional value v *)
(* is the one-element tuple <<v>>.  A content type is a tuple of           *)
(* characters, so that str.startswith is computed and not assumed.         *)
(***************************************************************************)
EXTENDS Integers, Sequences, FiniteSets, TLC

\* ---------------------------------------------------------------- bounds
NumReq == 2
MaxCrops == 2

Reqs == 1..NumReq

\* ------------------------------------------------------- optional values
None == <<>>
Some(v) == <<v>>
Val(o) == o[1]

\* ------------------------------------------------------------ the inputs
ImagePrefix == <<"i", "m", "a", "g", "e", "/">>

ContentTypes ==
    { None,
      Some(<<>>),
      Some(<<"i", "m", "a", "g", "e">>),
      Some(<<"I", "m", "a", "g", "e", "/", "x">>),
      Some(<<"t", "e", "x", "t", "/", "x">>),
      Some(<<"i", "m", "a", "g", "e", "/", "x">>) }

BoardCodes == { None, Some("BOARD-0001") }
Notes == { None, Some("rework") }
Filenames == { "a.png", "b/c.png" }
Entries == { "detect_pcb", "save_detection_to_supabase_and_get_urls" }

\* A file name with a path separator names a directory below uploads/ that
\* nothing creates: open() of such a path fails.
HasSeparator(fname) == fname = "b/c.png"

\* str.startswith(prefix)
StartsWith(s, p) ==
    /\ Len(s) >= Len(p)
    /\ \A i \in 1..Len(p) : s[i] = p[i]

\* ------------------------------------------------------------- detection
BBoxKeys == { "x", "y", "w", "h" }

Box(x, y, w, h) == [k \in BBoxKeys |->
    IF k = "x" THEN x ELSE IF k = "y" THEN y ELSE IF k = "w" THEN w ELSE h]

\* Crop i of a detection result; confidences are in hundredths.
Crop(i) ==
    IF i = 1 THEN [n |-> 1, prediction |-> "scratch", confidence |-> 91,
                   width |-> 20, height |-> 20, bbox |-> Some(Box(10, 10, 20, 20))]
    ELSE IF i = 2 THEN [n |-> 2, prediction |-> "short", confidence |-> 77,
                   width |-> 15, height |-> 15, bbox |-> Some(Box(0, 0, 15, 15))]
    ELSE [n |-> i, prediction |-> "open", confidence |-> 50,
                   width |-> 8, height |-> 8, bbox |-> None]

\* The detection is a function of the image: it returns one crop for each
\* defect the model finds in it, in the model's order.
run_pcb_detection(image_path, n) ==
    [annotated_image |-> [bytes |-> <<"annotated", image_path>>,
                          width |-> 640, height |-> 480,
                          original_filename |-> Some(image_path)],
     crops |-> [i \in 1..n |-> Crop(i)]]

\* ------------------------------------------------------ storage uploader
BUCKET_NAME == "pcb-images"

\* uuid4 draws 122 random bits; a draw is modelled as a value that no other
\* draw returns, named by the drawing request and the number of its draw.
uuid4(r, k) == <<r, k>>

StoragePath(folder, u, ext) == <<folder, u, ext>>

PublicUrl(storage_path) == <<BUCKET_NAME, storage_path>>

\* upload_to_storage returns (storage_path, public_url)
upload_to_storage(u, folder, ext) ==
    <<StoragePath(folder, u, ext), PublicUrl(StoragePath(folder, u, ext))>>

\* --------------------------------------------------------- record writer
\* Variant: optional fields that are None are left out of the field set.
insert_main_image_dropping_null(storage_path, public_url, width, height, original_filename, bc, nt) ==
    LET full == [storage_path |-> storage_path,
                 public_url |-> public_url,
                 width |-> width,
                 height |-> height,
                 original_filename |-> original_filename,
                 board_code |-> bc,
                 note |-> nt]
        optional == {"original_filename", "board_code", "note"}
    IN  [k \in {f \in DOMAIN full : f \notin optional \/ full[f] # None} |-> full[k]]

insert_main_image(storage_path, public_url, width, height, original_filename, bc, nt) ==
    [storage_path |-> storage_path,
     public_url |-> public_url,
     width |-> width,
     height |-> height,
     original_filename |-> original_filename,
     board_code |-> bc,
     note |-> nt]

\* dict.get(k): None when the key is missing
Get(d, k) == IF k \in DOMAIN d THEN Some(d[k]) ELSE None

\* Python truth value of an optional dict: None and {} are false
Truthy(bbox) == bbox # None /\ DOMAIN Val(bbox) # {}

BBoxColumns == { "bbox_x", "bbox_y", "bbox_width", "bbox_height" }

\* Variant: bbox.get(k, 0), a missing key stored as 0.
BBoxFieldsDefaultZero(bbox) ==
    LET get(k) == IF k \in DOMAIN Val(bbox) THEN Some(Val(bbox)[k]) ELSE Some(0) IN
    [c \in BBoxColumns |->
        IF c = "bbox_x" THEN get("x")
        ELSE IF c = "bbox_y" THEN get("y")
        ELSE IF c = "bbox_width" THEN get("w")
        ELSE get("h")]

BBoxFields(bbox) ==
    [c \in BBoxColumns |->
        IF c = "bbox_x" THEN Get(Val(bbox), "x")
        ELSE IF c = "bbox_y" THEN Get(Val(bbox), "y")
        ELSE IF c = "bbox_width" THEN Get(Val(bbox), "w")
        ELSE Get(Val(bbox), "h")]

insert_defect_crop(id, crop_storage_path, crop_public_url, crop_width, crop_height, prediction, confidence, bbox) ==
    LET data == [main_image_id |-> id,
                 crop_storage_path |-> crop_storage_path,
                 crop_public_url |-> crop_public_url,
                 crop_width |-> crop_width,
                 crop_height |-> crop_height,
                 prediction |-> prediction,
                 confidence |-> confidence]
    IN  IF Truthy(bbox) THEN BBoxFields(bbox) @@ data ELSE data

\* A column of a stored row: a key the insert left out is stored as null.
Column(data, c) == IF c \in DOMAIN data THEN data[c] ELSE None

\* ----------------------------------------------------------------- state
VARIABLES
    pc,                 \* where each request stands
    entry,              \* the function the request entered by
    file,               \* the uploaded part: content_type, filename
    board_code,
    note,
    tmp_path,           \* local of detect_pcb, None while unbound
    exc,                \* the exception caught by detect_pcb, if any
    response,           \* the HTTP response of the request, None while pending
    detection_result,   \* locals of the orchestrator
    main_upload,
    main_image_id,
    idx,
    crop_upload,
    crops_payload,
    result,             \* how the orchestrator ended: pending, returned, raised
    draws,              \* uuid4 draws made by the request
    calls,              \* the external calls the request has made, in order
    files,              \* paths that exist on the local disk
    storage,            \* objects in the bucket
    pcb_main_images,    \* the two tables, in insertion order
    pcb_defect_crops,
    supabase            \* the process-wide client handle

inputs == <<entry, file, board_code, note>>
handler == <<tmp_path, exc, response>>
orch == <<detection_result, main_upload, main_image_id, idx, crop_upload, crops_payload, result>>
backend == <<storage, pcb_main_images, pcb_defect_crops>>
vars == <<pc, inputs, handler, orch, draws, calls, files, backend, supabase>>

NoFile == [content_type |-> None, filename |-> "a.png", defects |-> 0]

InitState ==
    /\ pc = [r \in Reqs |-> "idle"]
    /\ entry = [r \in Reqs |-> "detect_pcb"]
    /\ file = [r \in Reqs |-> NoFile]
    /\ board_code = [r \in Reqs |-> None]
    /\ note = [r \in Reqs |-> None]
    /\ tmp_path = [r \in Reqs |-> None]
    /\ exc = [r \in Reqs |-> None]
    /\ response = [r \in Reqs |-> None]
    /\ detection_result = [r \in Reqs |-> None]
    /\ main_upload = [r \in Reqs |-> None]
    /\ main_image_id = [r \in Reqs |-> 0]
    /\ idx = [r \in Reqs |-> 0]
    /\ crop_upload = [r \in Reqs |-> None]
    /\ crops_payload = [r \in Reqs |-> <<>>]
    /\ result = [r \in Reqs |-> <<"pending">>]
    /\ draws = [r \in Reqs |-> 0]
    /\ calls = [r \in Reqs |-> <<>>]
    /\ files = {}
    /\ storage = {}
    /\ pcb_main_images = <<>>
    /\ pcb_defect_crops = <<>>
    /\ supabase = "client"

Init == InitState

\* ------------------------------------------------------- control helpers
Goto(r, p) ==
    /\ pc' = [pc EXCEPT ![r] = p]
    /\ UNCHANGED <<exc, result>>

\* An exception leaving the orchestrator: detect_pcb catches it (main.py
\* line 58); a direct caller of the orchestrator sees it raised.
RaiseInOrchestrator(r, cause) ==
    /\ result' = [result EXCEPT ![r] = <<"raised", cause>>]
    /\ IF entry[r] = "detect_pcb"
       THEN /\ exc' = [exc EXCEPT ![r] = Some(cause)]
            /\ pc' = [pc EXCEPT ![r] = "finally"]
       ELSE /\ exc' = exc
            /\ pc' = [pc EXCEPT ![r] = "done"]

\* An exception inside the try block of detect_pcb, before the orchestrator.
RaiseInHandler(r, cause) ==
    /\ exc' = [exc EXCEPT ![r] = Some(cause)]
    /\ pc' = [pc EXCEPT ![r] = "finally"]
    /\ UNCHANGED result

Call(r, op, arg, ok) ==
    calls' = [calls EXCEPT ![r] = Append(@, [op |-> op, arg |-> arg, ok |-> ok])]

ImagePath(r) ==
    IF entry[r] = "detect_pcb" THEN Val(tmp_path[r]) ELSE file[r].filename

Crops(r) == IF detection_result[r] = None THEN <<>> ELSE Val(detection_result[r]).crops

\* -------------------------------------------------------- request handler
UPLOAD_DIR == "uploads"

\* Variant: the temporary file is named after the upload alone.
TmpPathWithoutUuid(u, fname) == <<UPLOAD_DIR, <<0, 0>>, fname>>

\* filename = f"{uuid4()}_{file.filename}"; os.path.join(UPLOAD_DIR, filename)
TmpPath(u, fname) == <<UPLOAD_DIR, u, fname>>

\* file.content_type.startswith("image/"), for a content type that is a string
IsImage(content_type) == StartsWith(Val(content_type), ImagePrefix)

HTTPException(status_code, detail) ==
    [status |-> status_code, detail |-> Some(detail), body |-> None]

JSONResponse(content) ==
    [status |-> 200, detail |-> None, body |-> Some(content)]

\* A request arrives: entry point e, an uploaded part with content type ct
\* and file name f holding an image that shows d defects, board code b and
\* note n.
Receive(r, E, CT, F, D, B, N) ==
    /\ pc[r] = "idle"
    /\ \E e \in E, ct \in CT, f \in F, d \in D, b \in B, n \in N :
        /\ entry' = [entry EXCEPT ![r] = e]
        /\ file' = [file EXCEPT ![r] =
                [content_type |-> IF e = "detect_pcb" THEN ct ELSE None, filename |-> f, defects |-> d]]
        /\ board_code' = [board_code EXCEPT ![r] = b]
        /\ note' = [note EXCEPT ![r] = n]
        /\ Goto(r, IF e = "detect_pcb" THEN "validate" ELSE "detect")
    /\ UNCHANGED <<handler, detection_result, main_upload, main_image_id, idx, crop_upload, crops_payload, draws, calls, files, backend, supabase>>

\* A request served alone, with any input.
Request(r) ==
    /\ \A s \in Reqs \ {r} : pc[s] = "idle"
    /\ Receive(r, Entries, ContentTypes, Filenames, 0..MaxCrops, BoardCodes, Notes)

\* Calls served side by side: every caller hands over the same file, an
\* image named a.png that shows one defect, with the same board code.
ConcurrentRequest(r) ==
    Receive(r, Entries, {Some(<<"i", "m", "a", "g", "e", "/", "x">>)}, {"a.png"}, {1}, {Some("BOARD-0001")}, {None})

\* main.py lines 34-35.  startswith on None raises AttributeError outside the
\* try block: the framework answers 500 and the finally block is not entered.
Validate(r) ==
    /\ pc[r] = "validate"
    /\ IF file[r].content_type = None
       THEN response' = [response EXCEPT ![r] = Some(HTTPException(500, <<"Internal Server Error">>))]
       ELSE IF ~IsImage(file[r].content_type)
       THEN response' = [response EXCEPT ![r] = Some(HTTPException(400, <<"image files only">>))]
       ELSE response' = response
    /\ Goto(r, IF file[r].content_type # None /\ IsImage(file[r].content_type) THEN "read" ELSE "done")
    /\ UNCHANGED <<inputs, tmp_path, detection_result, main_upload, main_image_id, idx, crop_upload, crops_payload, draws, calls, files, backend, supabase>>

\* main.py line 39
ReadUpload(r) ==
    /\ pc[r] = "read"
    /\ \E ok \in BOOLEAN :
        /\ Call(r, "read", 0, ok)
        /\ IF ok THEN Goto(r, "write") ELSE RaiseInHandler(r, "read failed")
    /\ UNCHANGED <<inputs, tmp_path, response, detection_result, main_upload, main_image_id, idx, crop_upload, crops_payload, draws, files, backend, supabase>>

\* main.py lines 40-44: tmp_path is bound before open(); open creates the
\* file, write may fail after it exists.
WriteTemp(r) ==
    /\ pc[r] = "write"
    /\ LET path == TmpPath(uuid4(r, draws[r] + 1), file[r].filename) IN
       /\ draws' = [draws EXCEPT ![r] = @ + 1]
       /\ tmp_path' = [tmp_path EXCEPT ![r] = Some(path)]
       /\ \E outcome \in {"ok", "open failed", "write failed"} :
           /\ HasSeparator(file[r].filename) => outcome = "open failed"
           /\ Call(r, "write", 0, outcome = "ok")
           /\ files' = IF outcome = "open failed" THEN files ELSE files \cup {path}
           /\ IF outcome = "ok" THEN Goto(r, "detect") ELSE RaiseInHandler(r, outcome)
    /\ UNCHANGED <<inputs, response, detection_result, main_upload, main_image_id, idx, crop_upload, crops_payload, backend, supabase>>

\* ----------------------------------------------------------- orchestrator
\* The loop over the crops: after image i of n (0 is the main image) the
\* next crop is uploaded, or the function returns.
AfterImageStopsEarly(i, n) == IF i + 1 < n THEN "upload_crop" ELSE "return"

AfterImage(i, n) == IF i < n THEN "upload_crop" ELSE "return"

\* pcb_db.py line 118
Detect(r) ==
    /\ pc[r] = "detect"
    /\ \/ /\ Call(r, "run_pcb_detection", 0, FALSE)
          /\ RaiseInOrchestrator(r, "DetectionError")
          /\ UNCHANGED detection_result
       \/ /\ Call(r, "run_pcb_detection", 0, TRUE)
          /\ detection_result' = [detection_result EXCEPT ![r] = Some(run_pcb_detection(ImagePath(r), file[r].defects))]
          /\ Goto(r, "upload_main")
    /\ UNCHANGED <<inputs, tmp_path, response, main_upload, main_image_id, idx, crop_upload, crops_payload, draws, files, backend, supabase>>

\* pcb_db.py lines 127-131
UploadMain(r) ==
    /\ pc[r] = "upload_main"
    /\ draws' = [draws EXCEPT ![r] = @ + 1]
    /\ LET up == upload_to_storage(uuid4(r, draws[r] + 1), "pcb/main", "png") IN
       \/ /\ Call(r, "upload_to_storage", 0, FALSE)
          /\ RaiseInOrchestrator(r, "UploadError")
          /\ UNCHANGED <<main_upload, storage>>
       \/ /\ Call(r, "upload_to_storage", 0, TRUE)
          /\ storage' = storage \cup {up[1]}
          /\ main_upload' = [main_upload EXCEPT ![r] = Some(up)]
          /\ Goto(r, "insert_main")
    /\ UNCHANGED <<inputs, tmp_path, response, detection_result, main_image_id, idx, crop_upload, crops_payload, files, pcb_main_images, pcb_defect_crops, supabase>>

MainImageData(r) ==
    LET annotated == Val(detection_result[r]).annotated_image
        up == Val(main_upload[r])
    IN  insert_main_image(up[1], up[2], annotated.width, annotated.height, annotated.original_filename, board_code[r], note[r])

\* pcb_db.py lines 134-142.  A stored row is the field set of the insert with
\* the generated id; by and n record the inserting request and the image the
\* row is for (0 the main image, k crop k).  The insert ends in one of three ways: the row is
\* stored and its id returned; the backend rejects it; the row is stored
\* but the reply is lost, so the call raises.
InsertMain(r) ==
    /\ pc[r] = "insert_main"
    /\ LET row == [id |-> Len(pcb_main_images) + 1, by |-> r, n |-> 0, data |-> MainImageData(r)] IN
       \E outcome \in {"ok", "rejected", "reply lost"} :
          /\ Call(r, "insert_main_image", 0, outcome = "ok")
          /\ pcb_main_images' = IF outcome = "rejected" THEN pcb_main_images ELSE Append(pcb_main_images, row)
          /\ IF outcome = "ok"
             THEN /\ main_image_id' = [main_image_id EXCEPT ![r] = row.id]
                  /\ Goto(r, AfterImage(0, Len(Crops(r))))
             ELSE /\ UNCHANGED main_image_id
                  /\ RaiseInOrchestrator(r, "PersistenceError")
    /\ UNCHANGED <<inputs, tmp_path, response, detection_result, main_upload, idx, crop_upload, crops_payload, draws, files, storage, pcb_defect_crops, supabase>>

\* Variant: a failed crop upload is swallowed and the loop goes on.
UploadCropSkipsFailure(r) ==
    /\ pc[r] = "upload_crop"
    /\ draws' = [draws EXCEPT ![r] = @ + 1]
    /\ LET up == upload_to_storage(uuid4(r, draws[r] + 1), "pcb/crops", "png") IN
       \/ /\ Call(r, "upload_to_storage", idx[r] + 1, FALSE)
          /\ idx' = [idx EXCEPT ![r] = @ + 1]
          /\ Goto(r, AfterImage(idx[r] + 1, Len(Crops(r))))
          /\ UNCHANGED <<crop_upload, storage>>
       \/ /\ Call(r, "upload_to_storage", idx[r] + 1, TRUE)
          /\ storage' = storage \cup {up[1]}
          /\ crop_upload' = [crop_upload EXCEPT ![r] = Some(up)]
          /\ idx' = idx
          /\ Goto(r, "insert_crop")
    /\ UNCHANGED <<inputs, tmp_path, response, detection_result, main_upload, main_image_id, crops_payload, files, pcb_main_images, pcb_defect_crops, supabase>>

\* pcb_db.py lines 160-164
UploadCrop(r) ==
    /\ pc[r] = "upload_crop"
    /\ draws' = [draws EXCEPT ![r] = @ + 1]
    /\ LET up == upload_to_storage(uuid4(r, draws[r] + 1), "pcb/crops", "png") IN
       \/ /\ Call(r, "upload_to_storage", idx[r] + 1, FALSE)
          /\ RaiseInOrchestrator(r, "UploadError")
          /\ UNCHANGED <<crop_upload, storage>>
       \/ /\ Call(r, "upload_to_storage", idx[r] + 1, TRUE)
          /\ storage' = storage \cup {up[1]}
          /\ crop_upload' = [crop_upload EXCEPT ![r] = Some(up)]
          /\ Goto(r, "insert_crop")
    /\ UNCHANGED <<inputs, tmp_path, response, detection_result, main_upload, main_image_id, idx, crops_payload, files, pcb_main_images, pcb_defect_crops, supabase>>

\* Variant: the loop index is passed where the identifier belongs.
MainImageIdArgLoopIndex(r) == idx[r] + 1

\* The main_image_id argument of insert_defect_crop, pcb_db.py line 167
MainImageIdArg(r) == main_image_id[r]

DefectCropData(r) ==
    LET crop == Crops(r)[idx[r] + 1]
        up == Val(crop_upload[r])
    IN  insert_defect_crop(MainImageIdArg(r), up[1], up[2], crop.width, crop.height, crop.prediction, crop.confidence, crop.bbox)

\* app/pcb_db.py lines 167-178
CropPayload(id, up, crop) ==
    [id |-> id,
     crop_storage_path |-> up[1],
     crop_public_url |-> up[2],
     width |-> crop.width,
     height |-> crop.height,
     prediction |-> crop.prediction,
     confidence |-> crop.confidence,
     bbox |-> crop.bbox]

PrependPayload(payload, item) == <<item>> \o payload

AppendPayload(payload, item) == Append(payload, item)

\* pcb_db.py lines 166-175, and the end of the loop body
InsertCrop(r) ==
    /\ pc[r] = "insert_crop"
    /\ LET row == [id |-> Len(pcb_defect_crops) + 1, by |-> r, n |-> idx[r] + 1, data |-> DefectCropData(r)] IN
       \E outcome \in {"ok", "rejected", "reply lost"} :
          /\ Call(r, "insert_defect_crop", idx[r] + 1, outcome = "ok")
          /\ pcb_defect_crops' = IF outcome = "rejected" THEN pcb_defect_crops ELSE Append(pcb_defect_crops, row)
          /\ IF outcome = "ok"
             THEN /\ idx' = [idx EXCEPT ![r] = @ + 1]
                  /\ crops_payload' = [crops_payload EXCEPT ![r] =
                        IF entry[r] = "detect_pcb" THEN @
                        ELSE AppendPayload(@, CropPayload(row.id, Val(crop_upload[r]), Crops(r)[idx[r] + 1]))]
                  /\ Goto(r, AfterImage(idx[r] + 1, Len(Crops(r))))
             ELSE /\ UNCHANGED <<idx, crops_payload>>
                  /\ RaiseInOrchestrator(r, "PersistenceError")
    /\ UNCHANGED <<inputs, tmp_path, response, detection_result, main_upload, main_image_id, crop_upload, draws, files, storage, pcb_main_images, supabase>>

\* app/pcb_db.py lines 136-145
MainPayload(r) ==
    LET annotated == Val(detection_result[r]).annotated_image
        up == Val(main_upload[r])
    IN  [id |-> main_image_id[r],
         storage_path |-> up[1],
         public_url |-> up[2],
         width |-> annotated.width,
         height |-> annotated.height,
         original_filename |-> annotated.original_filename,
         board_code |-> board_code[r],
         note |-> note[r]]

\* The value the orchestrator returns: save_detection_to_supabase has no
\* return statement; the variant returns the payload.
ReturnValue(r) ==
    IF entry[r] = "detect_pcb" THEN None
    ELSE Some([main_image |-> MainPayload(r), crops |-> crops_payload[r]])

Return(r) ==
    /\ pc[r] = "return"
    /\ result' = [result EXCEPT ![r] = <<"returned", ReturnValue(r)>>]
    /\ pc' = [pc EXCEPT ![r] = IF entry[r] = "detect_pcb" THEN "finally" ELSE "done"]
    /\ UNCHANGED <<inputs, handler, detection_result, main_upload, main_image_id, idx, crop_upload, crops_payload, draws, calls, files, backend, supabase>>

\* main.py lines 58-77: the except clause, the finally clause, the response
DetailWithoutCause(e) == <<"processing error: ", "unknown">>

Detail(e) == <<"processing error: ", e>>

SuccessBody(r) ==
    [status |-> "ok",
     message |-> "Image processed and saved to Supabase.",
     board_code |-> board_code[r],
     note |-> note[r],
     original_filename |-> file[r].filename]

\* if "tmp_path" in locals() and os.path.exists(tmp_path)
MustRemove(r) == tmp_path[r] # None /\ Val(tmp_path[r]) \in files

\* Variant: the temporary file is removed only when the request succeeded.
FinallyKeepsFileOnError(r) ==
    /\ pc[r] = "finally"
    /\ IF MustRemove(r) /\ exc[r] = None
       THEN \E removed \in BOOLEAN :
              /\ Call(r, "remove", 0, removed)
              /\ files' = IF removed THEN files \ {Val(tmp_path[r])} ELSE files
       ELSE UNCHANGED <<calls, files>>
    /\ response' = [response EXCEPT ![r] =
            IF exc[r] # None THEN Some(HTTPException(500, Detail(Val(exc[r]))))
            ELSE Some(JSONResponse(SuccessBody(r)))]
    /\ Goto(r, "done")
    /\ UNCHANGED <<inputs, tmp_path, orch, draws, backend, supabase>>

Finally(r) ==
    /\ pc[r] = "finally"
    /\ IF MustRemove(r)
       THEN \E removed \in BOOLEAN :
              /\ Call(r, "remove", 0, removed)
              /\ files' = IF removed THEN files \ {Val(tmp_path[r])} ELSE files
       ELSE UNCHANGED <<calls, files>>
    /\ response' = [response EXCEPT ![r] =
            IF exc[r] # None THEN Some(HTTPException(500, Detail(Val(exc[r]))))
            ELSE Some(JSONResponse(SuccessBody(r)))]
    /\ Goto(r, "done")
    /\ UNCHANGED <<inputs, tmp_path, orch, draws, backend, supabase>>

\* ----------------------------------------------------------- the program
Step(r) ==
    \/ Validate(r)
    \/ ReadUpload(r)
    \/ WriteTemp(r)
    \/ Detect(r)
    \/ UploadMain(r)
    \/ InsertMain(r)
    \/ UploadCrop(r)
    \/ InsertCrop(r)
    \/ Return(r)
    \/ Finally(r)

Next == \E r \in Reqs : Request(r) \/ Step(r)

Spec == Init /\ [][Next]_vars

NextConcurrent == \E r \in Reqs : ConcurrentRequest(r) \/ Step(r)

SpecConcurrent == Init /\ [][NextConcurrent]_vars

\* ------------------------------------------ insert_defect_crop on any bbox
BBoxValues == { 0, 7 }

\* None, {} and every dict over a subset of the keys x, y, w, h
BBoxes == { None } \cup { Some(d) : d \in UNION { [K -> BBoxValues] : K \in SUBSET BBoxKeys } }

\* The state of a run that has reached the insert of its first crop, the
\* detection having returned one crop with bounding box b.
InitBBox ==
    \E e \in Entries, b \in BBoxes :
    LET first == 1
        rest == Reqs \ {first}
        path == TmpPath(uuid4(first, 1), "a.png")
        k == IF e = "detect_pcb" THEN 1 ELSE 0
        image_path == IF e = "detect_pcb" THEN path ELSE "a.png"
        detected == run_pcb_detection(image_path, 1)
        up0 == upload_to_storage(uuid4(first, k + 1), "pcb/main", "png")
        up1 == upload_to_storage(uuid4(first, k + 2), "pcb/crops", "png")
        ann == detected.annotated_image
        C(op, arg) == [op |-> op, arg |-> arg, ok |-> TRUE]
    IN
    /\ pc = [r \in Reqs |-> IF r = first THEN "insert_crop" ELSE "idle"]
    /\ entry = [r \in Reqs |-> IF r = first THEN e ELSE "detect_pcb"]
    /\ file = [r \in Reqs |-> IF r = first
            THEN [content_type |-> IF e = "detect_pcb" THEN Some(<<"i", "m", "a", "g", "e", "/", "x">>) ELSE None,
                  filename |-> "a.png", defects |-> 1]
            ELSE NoFile]
    /\ board_code = [r \in Reqs |-> None]
    /\ note = [r \in Reqs |-> None]
    /\ tmp_path = [r \in Reqs |-> IF r = first /\ e = "detect_pcb" THEN Some(path) ELSE None]
    /\ exc = [r \in Reqs |-> None]
    /\ response = [r \in Reqs |-> None]
    /\ detection_result = [r \in Reqs |-> IF r = first
            THEN Some([detected EXCEPT !.crops = <<[Crop(1) EXCEPT !.bbox = b]>>])
            ELSE None]
    /\ main_upload = [r \in Reqs |-> IF r = first THEN Some(up0) ELSE None]
    /\ main_image_id = [r \in Reqs |-> IF r = first THEN 1 ELSE 0]
    /\ idx = [r \in Reqs |-> 0]
    /\ crop_upload = [r \in Reqs |-> IF r = first THEN Some(up1) ELSE None]
    /\ crops_payload = [r \in Reqs |-> <<>>]
    /\ result = [r \in Reqs |-> <<"pending">>]
    /\ draws = [r \in Reqs |-> IF r = first THEN k + 2 ELSE 0]
    /\ calls = [r \in Reqs |-> IF r # first THEN <<>>
            ELSE (IF e = "detect_pcb" THEN <<C("read", 0), C("write", 0)>> ELSE <<>>)
                 \o <<C("run_pcb_detection", 0), C("upload_to_storage", 0),
                      C("insert_main_image", 0), C("upload_to_storage", 1)>>]
    /\ files = IF e = "detect_pcb" THEN {path} ELSE {}
    /\ storage = {up0[1], up1[1]}
    /\ pcb_main_images = <<[id |-> 1, by |-> first, n |-> 0,
            data |-> insert_main_image(up0[1], up0[2], ann.width, ann.height, ann.original_filename, None, None)]>>
    /\ pcb_defect_crops = <<>>
    /\ supabase = "client"

NextBBox == \E r \in Reqs : InsertCrop(r) \/ Return(r) \/ Finally(r)

SpecBBox == InitBBox /\ [][NextBBox]_vars

\* ============================================================ properties
MainRowsOf(r) == { i \in DOMAIN pcb_main_images : pcb_main_images[i].by = r }

CropRowsOf(r) == { i \in DOMAIN pcb_defect_crops : pcb_defect_crops[i].by = r }

Responded(r, lo, hi) == response[r] # None /\ Val(response[r]).status \in lo..hi

\* The calls of request r that failed, the best-effort removal aside
FailedCalls(r) == { i \in DOMAIN calls[r] : ~calls[r][i].ok /\ calls[r][i].op # "remove" }

CallsOf(r, op) == { i \in DOMAIN calls[r] : calls[r][i].op = op }

\* C1: a /detect request that answers status ok has inserted exactly one
\* MainImage row and exactly N DefectCrop rows, N the number of crops of its
\* detection result, one row per crop, and every one of them carries the
\* identifier that the request's insert_main_image returned.
C1_RowsOnSuccess ==
    \A r \in Reqs :
        (entry[r] = "detect_pcb" /\ Responded(r, 200, 200)) =>
            /\ Cardinality(MainRowsOf(r)) = 1
            /\ Cardinality(CropRowsOf(r)) = Len(Crops(r))
            /\ { pcb_defect_crops[i].n : i \in CropRowsOf(r) } = 1..Len(Crops(r))
            /\ main_image_id[r] # 0
            /\ \A i \in MainRowsOf(r) : pcb_main_images[i].id = main_image_id[r]
            /\ \A i \in CropRowsOf(r) : pcb_defect_crops[i].data.main_image_id = main_image_id[r]

C1_Witness ==
    \E r \in Reqs :
        /\ entry[r] = "detect_pcb"
        /\ Responded(r, 200, 200)
        /\ Len(Crops(r)) = MaxCrops
        /\ Cardinality(CropRowsOf(r)) = MaxCrops

\* The content type starts with the image prefix; an absent one does not.
HasImagePrefix(content_type) == content_type # None /\ StartsWith(Val(content_type), ImagePrefix)

\* C2: a /detect request whose content type does not start with "image/",
\* an absent content type included, is answered with a 4xx error, and by
\* then no temporary file is written, no detection is run and no upload or
\* insert is issued.
C2_NonImageRejected ==
    \A r \in Reqs :
        (entry[r] = "detect_pcb" /\ pc[r] \notin {"idle", "validate"} /\ ~HasImagePrefix(file[r].content_type)) =>
            /\ pc[r] = "done"
            /\ Responded(r, 400, 499)
            /\ tmp_path[r] = None
            /\ calls[r] = <<>>
            /\ MainRowsOf(r) = {} /\ CropRowsOf(r) = {}

\* C3: once a /detect request has completed, its temporary file is gone,
\* whatever step failed, unless the removal itself failed; and a failed
\* removal leaves the response what the other steps made it: status ok when
\* none of them failed, a 5xx error otherwise.
C3_TempFileGone ==
    \A r \in Reqs :
        (entry[r] = "detect_pcb" /\ pc[r] = "done" /\ tmp_path[r] # None) =>
            /\ Val(tmp_path[r]) \in files =>
                    \E i \in CallsOf(r, "remove") : ~calls[r][i].ok
            /\ FailedCalls(r) = {} => Responded(r, 200, 200)
            /\ FailedCalls(r) # {} => Responded(r, 500, 599)

C3_Witness ==
    \E r \in Reqs :
        /\ entry[r] = "detect_pcb" /\ pc[r] = "done" /\ tmp_path[r] # None
        /\ FailedCalls(r) # {}
        /\ \E i \in CallsOf(r, "remove") : calls[r][i].ok
        /\ Val(tmp_path[r]) \notin files

\* C4: when the upload of crop k fails, the request has exactly one
\* MainImage row and exactly k-1 DefectCrop rows, it makes no further call
\* but the removal of its temporary file, and a /detect request answers
\* with a 5xx error.
C4_CropUploadFailure ==
    \A r \in Reqs : \A i \in CallsOf(r, "upload_to_storage") :
        (calls[r][i].arg >= 1 /\ ~calls[r][i].ok) =>
            /\ Cardinality(MainRowsOf(r)) = 1
            /\ Cardinality(CropRowsOf(r)) = calls[r][i].arg - 1
            /\ \A j \in DOMAIN calls[r] : j > i => calls[r][j].op = "remove"
            /\ pc[r] \in {"finally", "done"}
            /\ result[r] = <<"raised", "UploadError">>
            /\ (entry[r] = "detect_pcb" /\ pc[r] = "done") => Responded(r, 500, 599)

C4_Witness ==
    \E r \in Reqs : \E i \in CallsOf(r, "upload_to_storage") :
        /\ entry[r] = "detect_pcb" /\ pc[r] = "done"
        /\ calls[r][i].arg = 2 /\ ~calls[r][i].ok
        /\ Cardinality(CropRowsOf(r)) = 1

\* C5: every stored DefectCrop row references a stored MainImage row, the
\* one of its own request, and a request calls insert_defect_crop only
\* after its insert_main_image has returned that identifier.
C5_CropReferencesMain ==
    /\ \A i \in DOMAIN pcb_defect_crops :
        LET row == pcb_defect_crops[i] IN
        /\ \E j \in DOMAIN pcb_main_images :
              /\ pcb_main_images[j].id = row.data.main_image_id
              /\ pcb_main_images[j].by = row.by
        /\ main_image_id[row.by] # 0
        /\ row.data.main_image_id = main_image_id[row.by]
    /\ \A r \in Reqs : \A i \in CallsOf(r, "insert_defect_crop") :
        \E j \in CallsOf(r, "insert_main_image") : j < i /\ calls[r][j].ok

C5_Witness ==
    \E i, j \in DOMAIN pcb_defect_crops :
        /\ pcb_defect_crops[i].by # pcb_defect_crops[j].by
        /\ entry[pcb_defect_crops[i].by] # entry[pcb_defect_crops[j].by]

\* The causes a failed call of each kind raises
Causes(op) ==
    IF op = "read" THEN {"read failed"}
    ELSE IF op = "write" THEN {"open failed", "write failed"}
    ELSE IF op = "run_pcb_detection" THEN {"DetectionError"}
    ELSE IF op = "upload_to_storage" THEN {"UploadError"}
    ELSE {"PersistenceError"}

\* C6: nothing is retried and the first failure ends the pipeline: detection
\* runs at most once, upload_to_storage at most N+1 times, no image is
\* uploaded or inserted twice, no call follows a failed one except the
\* removal of the temporary file; a failed detection leaves no upload or
\* insert, a failed main upload no row, a failed insert_main_image no crop
\* upload or insert; and a /detect request that met a failure answers 5xx
\* with a detail that carries the cause.
C6_StopsAtFirstFailure ==
    \A r \in Reqs :
        LET cs == calls[r]
            uploads == CallsOf(r, "upload_to_storage")
            inserts == CallsOf(r, "insert_main_image") \cup CallsOf(r, "insert_defect_crop")
        IN
        /\ Cardinality(CallsOf(r, "run_pcb_detection")) <= 1
        /\ Cardinality(uploads) <= Len(Crops(r)) + 1
        /\ \A i, j \in uploads : i # j => cs[i].arg # cs[j].arg
        /\ \A i, j \in inserts : i # j => cs[i].arg # cs[j].arg
        /\ \A i \in FailedCalls(r) : \A j \in DOMAIN cs : j > i => cs[j].op = "remove"
        /\ (\E i \in CallsOf(r, "run_pcb_detection") : ~cs[i].ok) =>
                uploads = {} /\ inserts = {}
        /\ (\E i \in uploads : cs[i].arg = 0 /\ ~cs[i].ok) =>
                inserts = {} /\ MainRowsOf(r) = {} /\ CropRowsOf(r) = {}
        /\ (\E i \in CallsOf(r, "insert_main_image") : ~cs[i].ok) =>
                /\ \A j \in uploads : cs[j].arg = 0
                /\ CallsOf(r, "insert_defect_crop") = {} /\ CropRowsOf(r) = {}
        /\ (entry[r] = "detect_pcb" /\ pc[r] = "done" /\ FailedCalls(r) # {}) =>
                /\ Responded(r, 500, 599)
                /\ \E i \in FailedCalls(r) : \E c \in Causes(cs[i].op) :
                        /\ exc[r] = Some(c)
                        /\ Val(response[r]).detail = Some(<<"processing error: ", c>>)

C6_Witness ==
    \E r \in Reqs :
        /\ entry[r] = "detect_pcb" /\ pc[r] = "done"
        /\ \E i \in CallsOf(r, "insert_main_image") : ~calls[r][i].ok
        /\ Len(Crops(r)) >= 1
        /\ Val(response[r]).detail = Some(<<"processing error: ", "PersistenceError">>)

\* C7: a successful /detect request echoes the board code and the note it
\* was given in its response and passes both to the MainImage insert; an
\* omitted one is null in the response and is a key with a null value in
\* the inserted field set.
C7_RoundTrip ==
    \A r \in Reqs :
        (entry[r] = "detect_pcb" /\ Responded(r, 200, 200)) =>
            /\ Val(Val(response[r]).body).board_code = board_code[r]
            /\ Val(Val(response[r]).body).note = note[r]
            /\ MainRowsOf(r) # {}
            /\ \A i \in MainRowsOf(r) :
                LET data == pcb_main_images[i].data IN
                /\ {"board_code", "note"} \subseteq DOMAIN data
                /\ data["board_code"] = board_code[r]
                /\ data["note"] = note[r]

C7_Witness ==
    \E r \in Reqs :
        /\ entry[r] = "detect_pcb" /\ Responded(r, 200, 200)
        /\ board_code[r] = None /\ note[r] = Some("rework")
        /\ \E i \in MainRowsOf(r) : pcb_main_images[i].data["board_code"] = None

\* The bounding box the detection handed over for a stored crop row
SuppliedBBox(row) == Crops(row.by)[row.n].bbox

\* C8: a stored DefectCrop row has bbox_x, bbox_y, bbox_width, bbox_height
\* equal to the box's x, y, w, h (null for a key the box lacks) when a box
\* was supplied, and has all four null when the box is None.
C8_BBoxColumns ==
    \A i \in DOMAIN pcb_defect_crops :
        LET row == pcb_defect_crops[i]
            bbox == SuppliedBBox(row)
        IN  IF bbox # None
            THEN /\ Column(row.data, "bbox_x") = Get(Val(bbox), "x")
                 /\ Column(row.data, "bbox_y") = Get(Val(bbox), "y")
                 /\ Column(row.data, "bbox_width") = Get(Val(bbox), "w")
                 /\ Column(row.data, "bbox_height") = Get(Val(bbox), "h")
            ELSE \A c \in BBoxColumns : Column(row.data, c) = None

C8_Witness ==
    \E i \in DOMAIN pcb_defect_crops :
        LET row == pcb_defect_crops[i]
            bbox == SuppliedBBox(row)
        IN  /\ bbox # None
            /\ DOMAIN Val(bbox) = {"x", "y", "w"}
            /\ Val(bbox)["x"] = 0
            /\ Column(row.data, "bbox_x") = Some(0)
            /\ Column(row.data, "bbox_height") = None

\* The request has written its temporary file and not yet reached the
\* finally clause.
HoldsTempFile(r) ==
    /\ entry[r] = "detect_pcb"
    /\ pc[r] \in {"detect", "upload_main", "insert_main", "upload_crop", "insert_crop", "return"}

\* C9: when requests run side by side, every DefectCrop row carries the
\* MainImage identifier of the request that inserted it, and that MainImage
\* row is the request's own; no two requests share a temporary path, and a
\* request that has written its temporary file finds it on disk until it
\* removes it itself; the client handle is never changed.
C9_RequestsIndependent ==
    /\ \A i \in DOMAIN pcb_defect_crops :
        LET row == pcb_defect_crops[i] IN
        /\ row.data.main_image_id = main_image_id[row.by]
        /\ \A j \in DOMAIN pcb_main_images :
              pcb_main_images[j].id = row.data.main_image_id => pcb_main_images[j].by = row.by
    /\ \A r, s \in Reqs :
        (r # s /\ tmp_path[r] # None /\ tmp_path[s] # None) => tmp_path[r] # tmp_path[s]
    /\ \A r \in Reqs : HoldsTempFile(r) => Val(tmp_path[r]) \in files
    /\ supabase = "client"

C9_Witness ==
    \E r, s \in Reqs :
        /\ r # s
        /\ entry[r] = "detect_pcb" /\ entry[s] = "detect_pcb"
        /\ file[r].filename = file[s].filename
        /\ pc[r] = "finally" /\ pc[s] = "insert_crop"
        /\ main_image_id[r] > main_image_id[s] /\ main_image_id[s] > 0
        /\ CropRowsOf(r) # {}

Returned(r) == result[r][1] = "returned"

\* The payload p describes what request r uploaded and inserted.
PayloadMatches(r, p) ==
    /\ \E i \in MainRowsOf(r) :
        LET row == pcb_main_images[i] IN
        /\ p.main_image.id = row.id
        /\ p.main_image.storage_path = row.data.storage_path
        /\ p.main_image.public_url = row.data.public_url
        /\ p.main_image.width = row.data.width
        /\ p.main_image.height = row.data.height
        /\ p.main_image.original_filename = row.data.original_filename
        /\ p.main_image.board_code = board_code[r]
        /\ p.main_image.note = note[r]
    /\ Len(p.crops) = Len(Crops(r))
    /\ \A k \in DOMAIN p.crops :
        /\ p.crops[k].prediction = Crops(r)[k].prediction
        /\ p.crops[k].confidence = Crops(r)[k].confidence
        /\ p.crops[k].bbox = Crops(r)[k].bbox
        /\ p.crops[k].width = Crops(r)[k].width
        /\ p.crops[k].height = Crops(r)[k].height
        /\ \E i \in CropRowsOf(r) :
            LET row == pcb_defect_crops[i] IN
            /\ row.n = k
            /\ p.crops[k].id = row.id
            /\ p.crops[k].crop_storage_path = row.data.crop_storage_path
            /\ p.crops[k].crop_public_url = row.data.crop_public_url

\* C10 as stated: whenever the orchestrator returns, either variant, it
\* returns a payload with the MainImage record and one DefectCrop record
\* per crop, in detection order.
C10_OrchestratorReturnsPayload ==
    \A r \in Reqs :
        Returned(r) => (result[r][2] # None /\ PayloadMatches(r, Val(result[r][2])))

\* C10 amended: save_detection_to_supabase_and_get_urls returns that
\* payload; save_detection_to_supabase, the one /detect calls, returns None.
C10_VariantReturnsPayload ==
    \A r \in Reqs :
        Returned(r) =>
            IF entry[r] = "save_detection_to_supabase_and_get_urls"
            THEN result[r][2] # None /\ PayloadMatches(r, Val(result[r][2]))
            ELSE result[r][2] = None

C10_Witness ==
    \E r \in Reqs :
        /\ entry[r] = "save_detection_to_supabase_and_get_urls"
        /\ Returned(r)
        /\ Len(Val(result[r][2]).crops) = MaxCrops
        /\ MaxCrops >= 2

====
